---------------------------- MODULE Spec2Model ----------------------------
(* A model of the KubeCon schedule pipeline:                               *)
(*   sched/parse_schedule.py   the ICS tokenizer (parse_ics_to_json)       *)
(*   sched/format_schedule.py  the document formatter and its extractors   *)
(* A text is a sequence of characters.  An ASCII character is a one-       *)
(* character string; a character outside ASCII is named by its code point  *)
(* ("U+00E9").                                                             *)
EXTENDS Integers, Sequences, FiniteSets, TLC

VARIABLES
    line,               \* parse_ics_to_json: the physical line just read
    nread,              \* parse_ics_to_json: how many lines were read
    metadata,           \* calendar_data["calendar"]["metadata"]
    events,             \* calendar_data["calendar"]["events"]
    current_event,      \* parse_ics_to_json: current_event (None or a dict)
    current_field,      \* parse_ics_to_json: current_field (None or a key)
    documents,          \* format_schedule_for_indexing: output_data["documents"]
    pc,                 \* where the pipeline run stands
    call,               \* a call of one function: its name and argument
    ret                 \* what that call returned (or raised)

vars == <<line, nread, metadata, events, current_event, current_field,
          documents, pc, call, ret>>

\* Python's None, where a text or a list may stand
None == <<"None">>

\* Python's None, where an object (a dict, a Speaker, a Location) may stand
NoneObj == [none |-> TRUE]

\* no exception
NoExc == "NoExc"

\* F(v): the body F with a local name for the value v
With(v, F(_)) == F(v)

-----------------------------------------------------------------------------
(* Python str operations, on sequences of characters.                      *)

\* Characters outside 7-bit ASCII that the model's inputs may hold.
NonAscii == {"U+00E9", "U+0301", "U+00C9", "U+2013", "U+00A0", "U+FB01",
             "U+2026", "U+00BD", "U+2044"}

IsAscii(c) == c \notin NonAscii

AllAscii(s) == \A i \in 1..Len(s) : IsAscii(s[i])

\* str.isspace(): the ASCII blanks and the no-break space.
Whitespace == {" ", "\t", "\r", "\n", "U+00A0"}

UpperLetters == <<"A", "B", "C", "D", "E", "F", "G", "H", "I", "J", "K", "L", "M",
                  "N", "O", "P", "Q", "R", "S", "T", "U", "V", "W", "X", "Y", "Z",
                  "U+00C9">>

LowerLetters == <<"a", "b", "c", "d", "e", "f", "g", "h", "i", "j", "k", "l", "m",
                  "n", "o", "p", "q", "r", "s", "t", "u", "v", "w", "x", "y", "z",
                  "U+00E9">>

LowerChar(c) ==
    IF \E i \in 1..Len(UpperLetters) : UpperLetters[i] = c
    THEN LowerLetters[CHOOSE i \in 1..Len(UpperLetters) : UpperLetters[i] = c]
    ELSE c

\* str.lower()
Lower(s) == [i \in 1..Len(s) |-> LowerChar(s[i])]

\* s[i:] with i counted from 0, as Python slices
From(s, i) == SubSeq(s, i + 1, Len(s))

MatchAt(s, p, i) == i + Len(p) - 1 <= Len(s) /\ SubSeq(s, i, i + Len(p) - 1) = p

\* str.startswith
StartsWith(s, p) == MatchAt(s, p, 1)

\* 1 + str.find: the position of the first occurrence of p in s, 0 when none
Find(s, p) ==
    IF \E i \in 1..Len(s) : MatchAt(s, p, i)
    THEN CHOOSE i \in 1..Len(s) :
             MatchAt(s, p, i) /\ \A j \in 1..(i - 1) : ~MatchAt(s, p, j)
    ELSE 0

\* p in s
Contains(s, p) == Find(s, p) # 0

\* str.split(sep)
RECURSIVE Split(_, _)
Split(s, sep) ==
    With(Find(s, sep), LAMBDA i :
        IF i = 0 THEN <<s>>
        ELSE <<SubSeq(s, 1, i - 1)>> \o Split(From(s, i + Len(sep) - 1), sep))

\* str.split(sep, 1)
Split1(s, sep) ==
    With(Find(s, sep), LAMBDA i :
        IF i = 0 THEN <<s>>
        ELSE <<SubSeq(s, 1, i - 1), From(s, i + Len(sep) - 1)>>)

\* str.strip()
Strip(s) ==
    With({i \in 1..Len(s) : s[i] \notin Whitespace}, LAMBDA keep :
        IF keep = {} THEN <<>>
        ELSE SubSeq(s, CHOOSE i \in keep : \A j \in keep : i <= j,
                       CHOOSE i \in keep : \A j \in keep : i >= j))

\* sep.join(texts)
RECURSIVE Join(_, _)
Join(texts, sep) ==
    IF Len(texts) = 0 THEN <<>>
    ELSE IF Len(texts) = 1 THEN texts[1]
    ELSE texts[1] \o sep \o Join(Tail(texts), sep)

\* str.replace(old, new)
Replace(s, old, new) == Join(Split(s, old), new)

\* [strip(x) for x in texts]
StripAll(texts) == [i \in 1..Len(texts) |-> Strip(texts[i])]

-----------------------------------------------------------------------------
(* format_schedule.py: the text normalizer.                                *)

\* unicodedata.normalize("NFKD", c) of one character
NfkdChar(c) ==
    CASE c = "U+00E9" -> <<"e", "U+0301">>
      [] c = "U+00C9" -> <<"E", "U+0301">>
      [] c = "U+00A0" -> <<" ">>
      [] c = "U+FB01" -> <<"f", "i">>
      [] c = "U+2026" -> <<".", ".", ".">>
      [] c = "U+00BD" -> <<"1", "U+2044", "2">>
      [] OTHER -> <<c>>

\* unicodedata.normalize("NFKD", text)
RECURSIVE Nfkd(_)
Nfkd(text) ==
    IF text = <<>> THEN <<>> ELSE NfkdChar(Head(text)) \o Nfkd(Tail(text))

\* .encode("ascii", "ignore").decode("ascii")
EncodeAsciiIgnore(text) == SelectSeq(text, IsAscii)

to_ascii_keep_all(text) == IF text = <<>> THEN <<>> ELSE Nfkd(text)

to_ascii(text) ==
    IF text = <<>> THEN <<>> ELSE EncodeAsciiIgnore(Nfkd(text))

-----------------------------------------------------------------------------
(* parse_schedule.py: unescape_ics_text.                                   *)

unescape_ics_text(text) ==
    IF text = <<>> THEN <<>>
    ELSE Strip(Replace(Replace(Replace(Replace(text,
                   <<"\\", ",">>, <<",">>),
                   <<"\\", ";">>, <<";">>),
                   <<"\\", "n">>, <<"\n">>),
                   <<"\\", "\\">>, <<"\\">>))

-----------------------------------------------------------------------------
(* parse_schedule.py: parse_ics_datetime.                                  *)
(* datetime.strptime compiles the format to a regular expression whose     *)
(* numeric fields take two digits or one; the match must then cover the    *)
(* whole string.                                                           *)

Digits == <<"0", "1", "2", "3", "4", "5", "6", "7", "8", "9">>

IsDigit(c) == \E i \in 1..10 : Digits[i] = c

DigitVal(c) == (CHOOSE i \in 1..10 : Digits[i] = c) - 1

DigitsAt(s, p, n) == p + n - 1 <= Len(s) /\ \A i \in p..(p + n - 1) : IsDigit(s[i])

RECURSIVE NumAt(_, _, _)
NumAt(s, p, n) ==
    IF n = 0 THEN 0 ELSE NumAt(s, p, n - 1) * 10 + DigitVal(s[p + n - 1])

\* The alternatives of one directive that match at position p, in the order
\* the regular expression tries them: <<length, value>>.
NumberIn(s, p, n, lo, hi) ==
    IF DigitsAt(s, p, n)
    THEN With(NumAt(s, p, n), LAMBDA v : IF v \in lo..hi THEN <<<<n, v>>>> ELSE <<>>)
    ELSE <<>>

TwoThenOne(s, p, lo2, hi2, lo1) ==
    NumberIn(s, p, 2, lo2, hi2) \o NumberIn(s, p, 1, lo1, 9)

LiteralAt(s, p, c) ==
    IF p <= Len(s) /\ LowerChar(s[p]) = LowerChar(c) THEN <<<<1, 0>>>> ELSE <<>>

DirectiveAt(s, p, d) ==
    CASE d = "Y" -> NumberIn(s, p, 4, 0, 9999)
      [] d = "m" -> TwoThenOne(s, p, 1, 12, 1)
      [] d = "d" -> TwoThenOne(s, p, 1, 31, 1)
                    \o (IF p + 1 <= Len(s) /\ s[p] = " " /\ DigitsAt(s, p + 1, 1)
                           /\ s[p + 1] # "0"
                        THEN <<<<2, DigitVal(s[p + 1])>>>> ELSE <<>>)
      [] d = "H" -> TwoThenOne(s, p, 0, 23, 0)
      [] d = "M" -> TwoThenOne(s, p, 0, 59, 0)
      [] d = "S" -> TwoThenOne(s, p, 0, 61, 0)
      [] OTHER   -> LiteralAt(s, p, d)

\* "%Y%m%dT%H%M%SZ"
IcsFormat == <<"Y", "m", "d", "T", "H", "M", "S", "Z">>

NoMatch == [ok |-> FALSE, vals |-> <<>>, end |-> 0]

RECURSIVE MatchFormat(_, _, _), TryAlternatives(_, _, _, _)
MatchFormat(s, p, k) ==
    IF k > Len(IcsFormat) THEN [ok |-> TRUE, vals |-> <<>>, end |-> p]
    ELSE TryAlternatives(s, p, k, DirectiveAt(s, p, IcsFormat[k]))

TryAlternatives(s, p, k, alts) ==
    IF alts = <<>> THEN NoMatch
    ELSE With(MatchFormat(s, p + alts[1][1], k + 1), LAMBDA r :
             IF r.ok
             THEN [ok |-> TRUE, vals |-> <<alts[1][2]>> \o r.vals, end |-> r.end]
             ELSE TryAlternatives(s, p, k, Tail(alts)))

IsLeap(y) == y % 4 = 0 /\ (y % 100 # 0 \/ y % 400 = 0)

DaysInMonth(y, m) ==
    IF m = 2 THEN (IF IsLeap(y) THEN 29 ELSE 28)
    ELSE IF m \in {4, 6, 9, 11} THEN 30 ELSE 31

\* datetime.strptime(dt_string, "%Y%m%dT%H%M%SZ"): the fields, or ValueError
strptime(s) ==
    With(MatchFormat(s, 1, 1), LAMBDA r :
        IF ~r.ok \/ r.end # Len(s) + 1 THEN [ok |-> FALSE]
        ELSE With(r.vals, LAMBDA v :
            IF v[1] < 1 \/ v[3] > DaysInMonth(v[1], v[2]) \/ v[7] > 59
            THEN [ok |-> FALSE]
            ELSE [ok |-> TRUE, year |-> v[1], month |-> v[2], day |-> v[3],
                  hour |-> v[5], minute |-> v[6], second |-> v[7]]))

\* Days from 1970-01-01 to the civil date y-m-d (proleptic Gregorian calendar).
DaysFromCivil(y, m, d) ==
    With(IF m <= 2 THEN y - 1 ELSE y, LAMBDA yy :
    With(yy \div 400, LAMBDA era :
    With(yy - era * 400, LAMBDA yoe :
    With(IF m > 2 THEN m - 3 ELSE m + 9, LAMBDA mp :
    With((153 * mp + 2) \div 5 + d - 1, LAMBDA doy :
        era * 146097 + yoe * 365 + yoe \div 4 - yoe \div 100 + doy - 719468)))))

\* The civil date of a day number: the inverse of DaysFromCivil.
CivilFromDays(days) ==
    With(days + 719468, LAMBDA z :
    With(z \div 146097, LAMBDA era :
    With(z - era * 146097, LAMBDA doe :
    With((doe - doe \div 1460 + doe \div 36524 - doe \div 146096) \div 365, LAMBDA yoe :
    With(doe - (365 * yoe + yoe \div 4 - yoe \div 100), LAMBDA doy :
    With((5 * doy + 2) \div 153, LAMBDA mp :
    With(IF mp < 10 THEN mp + 3 ELSE mp - 9, LAMBDA m :
        [year |-> yoe + era * 400 + (IF m <= 2 THEN 1 ELSE 0), month |-> m,
         day |-> doy - (153 * mp + 2) \div 5 + 1])))))))

\* 1970-01-01 was a Thursday.
IsSunday(days) == (days + 4) % 7 = 0

\* The n-th Sunday of month m of year y, as a day number.
NthSunday(y, m, n) ==
    CHOOSE days \in DaysFromCivil(y, m, 7 * n - 6)..DaysFromCivil(y, m, 7 * n) :
        IsSunday(days)

Before(d1, s1, d2, s2) == d1 < d2 \/ (d1 = d2 /\ s1 < s2)

\* ZoneInfo("America/New_York"): the offset from UTC, in seconds, in force at
\* the UTC instant (days, second of day).  Local mean time until 1883-11-18
\* 17:00 UTC.  From 2007 on daylight time runs from the second Sunday of March,
\* 07:00 UTC, to the first Sunday of November, 06:00 UTC; the model's inputs
\* are of year 1 or of 2007 and later, so the rules of 1883..2006 are left out.
NewYorkOffset(days, sod) ==
    IF Before(days, sod, DaysFromCivil(1883, 11, 18), 17 * 3600)
    THEN -17762
    ELSE With(CivilFromDays(days).year, LAMBDA y :
             IF /\ ~Before(days, sod, NthSunday(y, 3, 2), 7 * 3600)
                /\ Before(days, sod, NthSunday(y, 11, 1), 6 * 3600)
             THEN -14400
             ELSE -18000)

Pad2(n) == <<Digits[(n \div 10) + 1], Digits[(n % 10) + 1]>>

Pad4(n) == Pad2(n \div 100) \o Pad2(n % 100)

\* the utcoffset part of datetime.isoformat(): +HH:MM, with :SS when not zero
IsoOffset(off) ==
    With(IF off < 0 THEN -off ELSE off, LAMBDA a :
        <<IF off < 0 THEN "-" ELSE "+">> \o Pad2(a \div 3600) \o <<":">>
        \o Pad2((a % 3600) \div 60)
        \o (IF a % 60 # 0 THEN <<":">> \o Pad2(a % 60) ELSE <<>>))

\* datetime.isoformat() of the local time (days, second of day) at offset off
isoformat(days, sod, off) ==
    With(CivilFromDays(days), LAMBDA c :
        Pad4(c.year) \o <<"-">> \o Pad2(c.month) \o <<"-">> \o Pad2(c.day) \o <<"T">>
        \o Pad2(sod \div 3600) \o <<":">> \o Pad2((sod % 3600) \div 60) \o <<":">>
        \o Pad2(sod % 60) \o IsoOffset(off))

\* dt_utc.astimezone(ZoneInfo("America/New_York")): the local day and second
\* of day and the offset; OverflowError when the local date falls before
\* datetime.min (0001-01-01).
astimezone(days, sod) ==
    With(NewYorkOffset(days, sod), LAMBDA off :
    With(IF sod + off < 0 THEN days - 1 ELSE days, LAMBDA lday :
        IF lday < DaysFromCivil(1, 1, 1)
        THEN [raised |-> "OverflowError"]
        ELSE [raised |-> NoExc, days |-> lday, sod |-> (sod + off) % 86400,
              off |-> off]))

Returned(v) == [raised |-> NoExc, value |-> v]

Raised(e) == [raised |-> e, value |-> None]

\* parse_ics_datetime(dt_string): only ValueError is caught.
parse_ics_datetime(dt_string) ==
    IF dt_string = <<>> THEN Returned(<<>>)
    ELSE With(strptime(dt_string), LAMBDA t :
             IF ~t.ok THEN Returned(dt_string)
             ELSE With(astimezone(DaysFromCivil(t.year, t.month, t.day),
                                  t.hour * 3600 + t.minute * 60 + t.second),
                       LAMBDA e :
                           IF e.raised # NoExc THEN Raised(e.raised)
                           ELSE Returned(isoformat(e.days, e.sod, e.off))))

-----------------------------------------------------------------------------
(* format_schedule.py: the constants.                                      *)

COMPANY_SUFFIXES ==
    {<<"I", "n", "c", ".">>, <<"I", "n", "c">>, <<"L", "L", "C">>, <<"L", "L", "C", ".">>,
     <<"L", "t", "d">>, <<"L", "t", "d", ".">>, <<"C", "o", "r", "p">>,
     <<"C", "o", "r", "p", ".">>, <<"C", "o", ".">>, <<"C", "o">>, <<"L", "P">>,
     <<"L", "P", ".">>, <<"L", "L", "P">>, <<"L", "L", "P", ".">>, <<"P", "L", "C">>,
     <<"P", "L", "C", ".">>}

EXCLUDED_CATEGORIES ==
    {<<"R", "E", "G", "I", "S", "T", "R", "A", "T", "I", "O", "N">>,
     <<"C", "N", "C", "F", "-", "H", "O", "S", "T", "E", "D", " ", "C", "O", "-", "L",
       "O", "C", "A", "T", "E", "D", " ", "E", "V", "E", "N", "T", "S">>,
     <<"S", "P", "O", "N", "S", "O", "R", "-", "H", "O", "S", "T", "E", "D", " ", "C",
       "O", "-", "L", "O", "C", "A", "T", "E", "D", " ", "E", "V", "E", "N", "T">>,
     <<"P", "R", "O", "J", "E", "C", "T", " ", "O", "P", "P", "O", "R", "T", "U", "N",
       "I", "T", "I", "E", "S">>}

-----------------------------------------------------------------------------
(* format_schedule.py: parse_location.                                     *)

Location(b, l, r) == [building |-> b, level |-> l, room |-> r]

\* whether  ,\s*Atlanta  matches at position i
CityAt(s, i) ==
    /\ i <= Len(s) /\ s[i] = ","
    /\ \E k \in 0..(Len(s) - i) :
          /\ \A j \in (i + 1)..(i + k) : s[j] \in Whitespace
          /\ MatchAt(s, <<"A", "t", "l", "a", "n", "t", "a">>, i + k + 1)

\* re.split(r",\s*Atlanta", location)[0]
BeforeCity(s) ==
    IF \E i \in 1..Len(s) : CityAt(s, i)
    THEN SubSeq(s, 1, (CHOOSE i \in 1..Len(s) :
                          CityAt(s, i) /\ \A j \in 1..(i - 1) : ~CityAt(s, j)) - 1)
    ELSE s

\* one turn of the loop over the parts
LocationPartFirstWins(loc, part) ==
    IF StartsWith(Lower(part), <<"b", "u", "i", "l", "d", "i", "n", "g", " ">>)
    THEN (IF loc.building = None THEN [loc EXCEPT !.building = Strip(From(part, 9))]
          ELSE loc)
    ELSE IF StartsWith(Lower(part), <<"l", "e", "v", "e", "l", " ">>)
    THEN (IF loc.level = None THEN [loc EXCEPT !.level = Strip(From(part, 6))] ELSE loc)
    ELSE IF part # <<>> /\ loc.room = None
    THEN [loc EXCEPT !.room = part]
    ELSE loc

LocationPart(loc, part) ==
    IF StartsWith(Lower(part), <<"b", "u", "i", "l", "d", "i", "n", "g", " ">>)
    THEN [loc EXCEPT !.building = Strip(From(part, 9))]
    ELSE IF StartsWith(Lower(part), <<"l", "e", "v", "e", "l", " ">>)
    THEN [loc EXCEPT !.level = Strip(From(part, 6))]
    ELSE IF part # <<>>
    THEN [loc EXCEPT !.room = part]
    ELSE loc

RECURSIVE LocationParts(_, _)
LocationParts(loc, parts) ==
    IF parts = <<>> THEN loc
    ELSE LocationParts(LocationPart(loc, Head(parts)), Tail(parts))

\* bool(x) of an optional text
Truthy(x) == x # None /\ x # <<>>

\* parse_location returning loc whatever its fields are
parse_location_unchecked(location) ==
    IF location = <<>> THEN NoneObj
    ELSE LocationParts(Location(None, None, None),
                       StripAll(Split(Strip(BeforeCity(location)), <<"|">>)))

parse_location(location) ==
    IF location = <<>> THEN NoneObj
    ELSE With(LocationParts(Location(None, None, None),
                            StripAll(Split(Strip(BeforeCity(location)), <<"|">>))),
              LAMBDA loc :
                  IF Truthy(loc.building) \/ Truthy(loc.level) \/ Truthy(loc.room)
                  THEN loc ELSE NoneObj)

-----------------------------------------------------------------------------
(* format_schedule.py: the speaker extractor.                              *)

Speaker(n, t, c) == [name |-> n, title |-> t, company |-> c]

Last(s) == s[Len(s)]

normalize_company_name(parts, start_idx) ==
    IF start_idx >= Len(parts) THEN <<>>
    ELSE With(From(parts, start_idx), LAMBDA company_parts :
         With(Len(company_parts), LAMBDA n :
             IF n >= 2 /\ company_parts[n] \in COMPANY_SUFFIXES
             THEN company_parts[n - 1] \o <<",", " ">> \o company_parts[n]
             ELSE company_parts[n]))

\* lines 192-209, on the trimmed parts of an entry that holds a comma
SpeakerOfPartsNoSuffix(parts, n) ==
    IF n = 2 THEN Speaker(parts[1], None, parts[2])
    ELSE Speaker(parts[1], Join(SubSeq(parts, 2, n - 1), <<",", " ">>), parts[n])

SpeakerOfParts(parts, n) ==
    IF n = 2 THEN Speaker(parts[1], None, parts[2])
    ELSE IF parts[n] \in COMPANY_SUFFIXES
    THEN Speaker(parts[1],
                 IF n > 3 THEN Join(SubSeq(parts, 2, n - 2), <<",", " ">>) ELSE None,
                 parts[n - 1] \o <<",", " ">> \o parts[n])
    ELSE Speaker(parts[1],
                 IF n > 2 THEN Join(SubSeq(parts, 2, n - 1), <<",", " ">>) ELSE None,
                 parts[n])

parse_speaker_entry(entry0) ==
    With(Strip(entry0), LAMBDA entry :
        IF entry = <<>> THEN NoneObj
        ELSE IF ~Contains(entry, <<",">>) THEN Speaker(entry, None, None)
        ELSE With(StripAll(Split(entry, <<",">>)), LAMBDA parts :
                  SpeakerOfParts(parts, Len(parts))))

\* [x for x in map(parse_speaker_entry, entries) if x]
RECURSIVE ParseEntries(_)
ParseEntries(entries) ==
    IF entries = <<>> THEN <<>>
    ELSE With(parse_speaker_entry(Head(entries)), LAMBDA speaker :
             (IF speaker # NoneObj THEN <<speaker>> ELSE <<>>)
             \o ParseEntries(Tail(entries)))

\* lines 269-271: the speakers of a shared-company group
SharedCompanySpeakers(entries, n, last_parts) ==
    With(normalize_company_name(last_parts, 1), LAMBDA company :
    With(SubSeq(entries, 1, n - 1) \o <<Strip(last_parts[1])>>, LAMBDA names :
        [i \in 1..n |-> Speaker(names[i], None, company)]))

\* lines 263-268: the shared-company heuristic
IsSharedCompany(entries, n) ==
    /\ n > 1
    /\ Contains(entries[n], <<",">>)
    /\ ~\E i \in 1..(n - 1) : Contains(entries[i], <<",">>)

_parse_speaker_group(group) ==
    With(StripAll(Split(group, <<" ", "&", " ">>)), LAMBDA entries :
        IF IsSharedCompany(entries, Len(entries))
        THEN SharedCompanySpeakers(entries, Len(entries),
                                   Split(entries[Len(entries)], <<",">>))
        ELSE ParseEntries(entries))

RECURSIVE ParseGroups(_)
ParseGroups(groups) ==
    IF groups = <<>> THEN <<>>
    ELSE _parse_speaker_group(Strip(Head(groups))) \o ParseGroups(Tail(groups))

DashSep == <<" ", "-", " ">>

\* summary.rsplit(" - ", 1)[1]: the text after the LAST separator
AfterLastDash(summary) == Last(Split(summary, DashSep))

\* summary.split(" - ", 1)[1]
AfterFirstDash(summary) == Split1(summary, DashSep)[2]

extract_speakers(summary) ==
    IF summary = <<>> \/ ~Contains(summary, DashSep) THEN <<>>
    ELSE With(Strip(AfterFirstDash(summary)), LAMBDA speaker_section :
             IF Contains(speaker_section, <<";">>)
             THEN ParseGroups(Split(speaker_section, <<";">>))
             ELSE _parse_speaker_group(speaker_section))

-----------------------------------------------------------------------------
(* format_schedule.py: the document formatter.                             *)

\* A dict: d restricted to the keys in ks.
Only(d, ks) == [k \in ks |-> d[k]]

\* Location.to_dict / Speaker.to_dict: the fields that are not None
to_dict(obj) == Only(obj, {k \in DOMAIN obj : obj[k] # None})

\* [x] if x else []
IfTruthy(x, t) == IF Truthy(x) THEN <<t>> ELSE <<>>

\* Location.to_text
location_to_text(loc) ==
    Join(IfTruthy(loc.building, <<"B", "u", "i", "l", "d", "i", "n", "g", " ">> \o loc.building)
         \o IfTruthy(loc.level, <<"L", "e", "v", "e", "l", " ">> \o loc.level)
         \o IfTruthy(loc.room, loc.room),
         <<" ", "|", " ">>)

\* Speaker.to_text
speaker_to_text(s) ==
    Join(<<s.name>> \o IfTruthy(s.title, s.title)
         \o IfTruthy(s.company, <<"f", "r", "o", "m", " ">> \o s.company),
         <<" ">>)

\* the title: the summary before its first " - "
TitleOf(summary) ==
    IF Contains(summary, DashSep) THEN Strip(Split(summary, DashSep)[1]) ELSE summary

\* the location string as format_event_to_document hands it to parse_location
LocationArg(event) == event.location

\* lines 307-321: the metadata dict
MetadataOf(event, title, description, speakers, location, categories) ==
    Only([title |-> title, description |-> description, url |-> event.url,
          uid |-> event.uid, start |-> event.dtstart, end |-> event.dtend,
          categories |-> categories,
          location |-> IF location # NoneObj THEN to_dict(location) ELSE NoneObj,
          speakers |-> [i \in 1..Len(speakers) |-> to_dict(speakers[i])]],
         {"title", "description", "url", "uid", "start", "end", "categories"}
         \cup (IF location # NoneObj THEN {"location"} ELSE {})
         \cup (IF speakers # <<>> THEN {"speakers"} ELSE {}))

\* text_parts with the categories sentence put first
TextPartsOfCategoriesFirst(description, speakers, location, categories) ==
    (IF categories # <<>>
     THEN <<<<"C", "a", "t", "e", "g", "o", "r", "i", "e", "s", ":", " ">>
            \o Join(categories, <<",", " ">>) \o <<".">>>>
     ELSE <<>>)
    \o (IF description # <<>> THEN <<description>> ELSE <<>>)
    \o (IF speakers # <<>>
        THEN <<<<"S", "p", "e", "a", "k", "e", "r", "s", ":", " ">>
               \o Join([i \in 1..Len(speakers) |-> speaker_to_text(speakers[i])],
                       <<",", " ">>)
               \o <<".">>>>
        ELSE <<>>)
    \o (IF location # NoneObj
        THEN <<<<"L", "o", "c", "a", "t", "i", "o", "n", ":", " ">>
               \o location_to_text(location) \o <<".">>>>
        ELSE <<>>)

\* lines 324-334: text_parts
TextPartsOf(description, speakers, location, categories) ==
    (IF description # <<>> THEN <<description>> ELSE <<>>)
    \o (IF speakers # <<>>
        THEN <<<<"S", "p", "e", "a", "k", "e", "r", "s", ":", " ">>
               \o Join([i \in 1..Len(speakers) |-> speaker_to_text(speakers[i])],
                       <<",", " ">>)
               \o <<".">>>>
        ELSE <<>>)
    \o (IF location # NoneObj
        THEN <<<<"L", "o", "c", "a", "t", "i", "o", "n", ":", " ">>
               \o location_to_text(location) \o <<".">>>>
        ELSE <<>>)
    \o (IF categories # <<>>
        THEN <<<<"C", "a", "t", "e", "g", "o", "r", "i", "e", "s", ":", " ">>
               \o Join(categories, <<",", " ">>) \o <<".">>>>
        ELSE <<>>)

format_event_to_document(event) ==
    With(to_ascii(event.summary), LAMBDA summary :
    With(to_ascii(event.description), LAMBDA description :
    With(extract_speakers(summary), LAMBDA speakers :
    With(parse_location(LocationArg(event)), LAMBDA location :
    With([i \in 1..Len(event.categories) |-> to_ascii(event.categories[i])],
         LAMBDA categories :
        [text |-> Join(TextPartsOf(description, speakers, location, categories), <<" ">>),
         metadata |-> MetadataOf(event, TitleOf(summary), description, speakers,
                                 location, categories)])))))

\* any(cat in EXCLUDED_CATEGORIES for cat in event["categories"])
IsExcludedFirstOnly(event) ==
    Len(event.categories) > 0 /\ event.categories[1] \in EXCLUDED_CATEGORIES

IsExcluded(event) ==
    \E i \in 1..Len(event.categories) : event.categories[i] \in EXCLUDED_CATEGORIES

NotExcluded(event) == ~IsExcluded(event)

\* format_schedule_for_indexing: output_data["documents"]
DocumentsOf(evs) ==
    With(SelectSeq(evs, NotExcluded), LAMBDA session_events :
        [i \in 1..Len(session_events) |-> format_event_to_document(session_events[i])])

-----------------------------------------------------------------------------
(* parse_schedule.py: parse_ics_to_json, one loop turn per action.         *)

\* how many physical lines a calendar of the model holds at most
MaxLines == 6

\* current_field is None
NoField == "None"

\* The physical lines a calendar of the model is made of.
LineChoices ==
    {<<"B", "E", "G", "I", "N", ":", "V", "E", "V", "E", "N", "T">>,
     <<"E", "N", "D", ":", "V", "E", "V", "E", "N", "T", "\r">>,
     <<"D", "E", "S", "C", "R", "I", "P", "T", "I", "O", "N", ":", "a", "\\", ",">>,
     <<" ", "b">>,
     <<" ", "V", "E", "R", "S", "I", "O", "N", ":", "9">>,
     <<"S", "U", "M", "M", "A", "R", "Y", ":", "T", " ", "-", " ", "J">>,
     <<"C", "A", "T", "E", "G", "O", "R", "I", "E", "S", ":", "K", ",", " ",
       "R", "E", "G", "I", "S", "T", "R", "A", "T", "I", "O", "N">>,
     <<"C", "A", "T", "E", "G", "O", "R", "I", "E", "S", ":", "K">>,
     <<"V", "E", "R", "S", "I", "O", "N", ":", "2", ".", "0">>,
     <<"S", "E", "Q", "U", "E", "N", "C", "E", ":", "7">>,
     <<"S", "E", "Q", "U", "E", "N", "C", "E", ":", "x">>,
     <<"D", "T", "S", "T", "A", "R", "T", ":", "2", "0", "2", "5", "1", "1", "1", "8",
       "T", "1", "4", "0", "0", "0", "0", "Z">>,
     <<"D", "T", "E", "N", "D", ":", "0", "0", "0", "1", "0", "1", "0", "1",
       "T", "0", "0", "0", "0", "0", "0", "Z">>,
     <<"X", "-", "F", "O", "O">>,
     <<"\r">>}

NewEvent ==
    [uid |-> <<>>, dtstamp |-> <<>>, dtstart |-> <<>>, dtend |-> <<>>,
     summary |-> <<>>, description |-> <<>>, categories |-> <<>>,
     location |-> <<>>, sequence |-> 0, url |-> <<>>]

\* the calendar metadata lines: prefix -> key
MetadataFields ==
    <<[prefix |-> <<"V", "E", "R", "S", "I", "O", "N", ":">>, key |-> "version"],
      [prefix |-> <<"X", "-", "W", "R", "-", "C", "A", "L", "N", "A", "M", "E", ":">>,
       key |-> "name"],
      [prefix |-> <<"X", "-", "W", "R", "-", "C", "A", "L", "D", "E", "S", "C", ":">>,
       key |-> "description"],
      [prefix |-> <<"M", "E", "T", "H", "O", "D", ":">>, key |-> "method"],
      [prefix |-> <<"C", "A", "L", "S", "C", "A", "L", "E", ":">>, key |-> "calscale"],
      [prefix |-> <<"P", "R", "O", "D", "I", "D", ":">>, key |-> "prodid"],
      [prefix |-> <<"X", "-", "W", "R", "-", "T", "I", "M", "E", "Z", "O", "N", "E", ":">>,
       key |-> "timezone"]>>

IsMetadataLine(s) == \E i \in 1..Len(MetadataFields) : StartsWith(s, MetadataFields[i].prefix)

\* the first branch of the if/elif chain that takes s
MetadataKey(s) ==
    MetadataFields[CHOOSE i \in 1..Len(MetadataFields) :
        /\ StartsWith(s, MetadataFields[i].prefix)
        /\ \A j \in 1..(i - 1) : ~StartsWith(s, MetadataFields[j].prefix)].key

\* d[k] = v on a dict
SetKey(d, k, v) == [x \in DOMAIN d \cup {k} |-> IF x = k THEN v ELSE d[x]]

BeginMarker == <<"B", "E", "G", "I", "N", ":", "V", "E", "V", "E", "N", "T">>

EndMarker == <<"E", "N", "D", ":", "V", "E", "V", "E", "N", "T">>

\* int(value): the number, or ValueError
int(value) ==
    With(Strip(value), LAMBDA v :
    With(IF v # <<>> /\ v[1] \in {"+", "-"} THEN Tail(v) ELSE v, LAMBDA digits :
        IF digits # <<>> /\ DigitsAt(digits, 1, Len(digits))
        THEN Returned(IF v[1] = "-" THEN 0 - NumAt(digits, 1, Len(digits))
                      ELSE NumAt(digits, 1, Len(digits)))
        ELSE Raised("ValueError")))

\* the recognized event fields: the name before the colon -> the key
EventFields ==
    <<[name |-> <<"U", "I", "D">>, key |-> "uid"],
      [name |-> <<"D", "T", "S", "T", "A", "M", "P">>, key |-> "dtstamp"],
      [name |-> <<"D", "T", "S", "T", "A", "R", "T">>, key |-> "dtstart"],
      [name |-> <<"D", "T", "E", "N", "D">>, key |-> "dtend"],
      [name |-> <<"S", "U", "M", "M", "A", "R", "Y">>, key |-> "summary"],
      [name |-> <<"D", "E", "S", "C", "R", "I", "P", "T", "I", "O", "N">>,
       key |-> "description"],
      [name |-> <<"C", "A", "T", "E", "G", "O", "R", "I", "E", "S">>, key |-> "categories"],
      [name |-> <<"L", "O", "C", "A", "T", "I", "O", "N">>, key |-> "location"],
      [name |-> <<"S", "E", "Q", "U", "E", "N", "C", "E">>, key |-> "sequence"],
      [name |-> <<"U", "R", "L">>, key |-> "url"]>>

IsEventField(field) == \E i \in 1..Len(EventFields) : EventFields[i].name = field

EventKey(field) == EventFields[CHOOSE i \in 1..Len(EventFields) : EventFields[i].name = field].key

\* the value an event field takes from the text after the colon
FieldValue(key, value) ==
    CASE key \in {"dtstamp", "dtstart", "dtend"} -> parse_ics_datetime(value)
      [] key = "categories" -> Returned(StripAll(Split(value, <<",">>)))
      [] key = "sequence" -> int(value)
      [] OTHER -> Returned(value)

\* current_event[current_field] += line[1:]
AppendToField(event, key, rest) ==
    CASE key = "categories" ->
             Returned([event EXCEPT !.categories = @ \o [i \in 1..Len(rest) |-> <<rest[i]>>]])
      [] key = "sequence" -> Raised("TypeError")
      [] OTHER -> Returned([event EXCEPT ![key] = @ \o rest])

\* line = line.strip()
StrippedLine(l) == Strip(l)

NoCall == [fn |-> "none", arg |-> None]

NoRet == [raised |-> NoExc, value |-> None]

EmptyDict == [k \in {} |-> None]

\* The state parse_ics_to_json starts in.
Init ==
    /\ line = None
    /\ nread = 0
    /\ metadata = EmptyDict
    /\ events = <<>>
    /\ current_event = NoneObj
    /\ current_field = NoField
    /\ documents = None
    /\ pc = "reading"
    /\ call = NoCall
    /\ ret = NoRet

\* the loop reads the physical line l
Reads(l) ==
    /\ pc = "reading"
    /\ nread < MaxLines
    /\ line' = l
    /\ nread' = nread + 1
    /\ UNCHANGED <<documents, call>>

\* lines 69-70: if not line: continue
BlankLine(l) ==
    /\ Reads(l)
    /\ StrippedLine(l) = <<>>
    /\ UNCHANGED <<metadata, events, current_event, current_field, pc, ret>>

\* lines 73-86: the calendar metadata branches
MetadataLine(l) ==
    /\ Reads(l)
    /\ IsMetadataLine(StrippedLine(l))
    /\ metadata' = SetKey(metadata, MetadataKey(StrippedLine(l)),
                          Split1(StrippedLine(l), <<":">>)[2])
    /\ UNCHANGED <<events, current_event, current_field, pc, ret>>

\* lines 89-102: BEGIN:VEVENT
BeginEvent(l) ==
    /\ Reads(l)
    /\ StrippedLine(l) = BeginMarker
    /\ current_event' = NewEvent
    /\ current_field' = NoField
    /\ UNCHANGED <<metadata, events, pc, ret>>

\* END:VEVENT that appends the event and stays in it
EndEventStaysInEvent(l) ==
    /\ Reads(l)
    /\ StrippedLine(l) = EndMarker
    /\ current_event # NoneObj
    /\ events' = Append(events,
           [current_event EXCEPT !.description = unescape_ics_text(@),
                                 !.summary = unescape_ics_text(@),
                                 !.location = unescape_ics_text(@)])
    /\ UNCHANGED <<metadata, current_event, current_field, pc, ret>>

\* lines 104-113: END:VEVENT and current_event
EndEvent(l) ==
    /\ Reads(l)
    /\ StrippedLine(l) = EndMarker
    /\ current_event # NoneObj
    /\ events' = Append(events,
           [current_event EXCEPT !.description = unescape_ics_text(@),
                                 !.summary = unescape_ics_text(@),
                                 !.location = unescape_ics_text(@)])
    /\ current_event' = NoneObj
    /\ current_field' = NoField
    /\ UNCHANGED <<metadata, pc, ret>>

\* what lines 116-155 do to (current_event, current_field) on the stripped
\* line s: the new pair, or the exception raised
SetField(event, key, r) ==
    IF r.raised # NoExc THEN r
    ELSE Returned([event |-> [event EXCEPT ![key] = r.value], field |-> key])

EventLineResult(s, event, field) ==
    IF StartsWith(s, <<" ">>) /\ field # NoField
    THEN With(AppendToField(event, field, From(s, 1)), LAMBDA r :
             IF r.raised # NoExc THEN r
             ELSE Returned([event |-> r.value, field |-> field]))
    ELSE IF Contains(s, <<":">>)
    THEN With(Split1(s, <<":">>), LAMBDA fv :
             IF IsEventField(fv[1])
             THEN SetField(event, EventKey(fv[1]), FieldValue(EventKey(fv[1]), fv[2]))
             ELSE Returned([event |-> event, field |-> field]))
    ELSE Returned([event |-> event, field |-> field])

\* whether the chain reaches "elif current_event" (line 115) on the stripped line s
IsEventLine(s) ==
    /\ s # <<>>
    /\ ~IsMetadataLine(s)
    /\ s # BeginMarker
    /\ s # EndMarker

\* lines 115-155: elif current_event
EventLine(l) ==
    /\ Reads(l)
    /\ IsEventLine(StrippedLine(l))
    /\ current_event # NoneObj
    /\ \E r \in {EventLineResult(StrippedLine(l), current_event, current_field)} :
           IF r.raised # NoExc
           THEN /\ pc' = "raised"
                /\ ret' = r
                /\ UNCHANGED <<current_event, current_field>>
           ELSE /\ current_event' = r.value.event
                /\ current_field' = r.value.field
                /\ UNCHANGED <<pc, ret>>
    /\ UNCHANGED <<metadata, events>>

\* no branch of the chain takes the line: it is outside an event
IgnoredLine(l) ==
    /\ Reads(l)
    /\ StrippedLine(l) # <<>>
    /\ ~IsMetadataLine(StrippedLine(l))
    /\ StrippedLine(l) # BeginMarker
    /\ current_event = NoneObj
    /\ UNCHANGED <<metadata, events, current_event, current_field, pc, ret>>

\* line 157: the lines are used up, return calendar_data
EndOfInput ==
    /\ pc = "reading"
    /\ pc' = "parsed"
    /\ UNCHANGED <<line, nread, metadata, events, current_event, current_field,
                   documents, call, ret>>

\* format_schedule_for_indexing on the schedule.json that was written
FormatSchedule ==
    /\ pc = "parsed"
    /\ documents' = DocumentsOf(events)
    /\ pc' = "indexed"
    /\ UNCHANGED <<line, nread, metadata, events, current_event, current_field,
                   call, ret>>

Next ==
    \/ \E l \in LineChoices : BlankLine(l)
    \/ \E l \in LineChoices : MetadataLine(l)
    \/ \E l \in LineChoices : BeginEvent(l)
    \/ \E l \in LineChoices : EndEvent(l)
    \/ \E l \in LineChoices : EventLine(l)
    \/ \E l \in LineChoices : IgnoredLine(l)
    \/ EndOfInput
    \/ FormatSchedule

Spec == Init /\ [][Next]_vars

-----------------------------------------------------------------------------
(* The functions of format_schedule.py and parse_schedule.py called on     *)
(* their own: call holds the function and its argument, ret what it        *)
(* returned or raised, pc goes from "call" to "done".                      *)

\* the tokenizer is not running
Idle ==
    /\ line = None
    /\ nread = 0
    /\ metadata = EmptyDict
    /\ events = <<>>
    /\ current_event = NoneObj
    /\ current_field = NoField
    /\ documents = None
    /\ ret = NoRet

\* the function fn is called
Calling(fn) ==
    /\ pc = "call"
    /\ call.fn = fn

\* the call is over
Done ==
    /\ pc' = "done"
    /\ UNCHANGED <<line, nread, metadata, events, current_event, current_field,
                   documents, call>>

Calls(fn, args) == {[fn |-> fn, arg |-> a] : a \in args}

Called(fn) == pc = "done" /\ call.fn = fn

\* texts[1] seps[1] texts[2] ... texts[n]
RECURSIVE JoinWith(_, _)
JoinWith(texts, seps) ==
    IF Len(texts) = 1 THEN texts[1]
    ELSE texts[1] \o seps[1] \o JoinWith(Tail(texts), Tail(seps))

-----------------------------------------------------------------------------
(* extract_speakers and parse_speaker_entry on summaries and entries.      *)

\* how many speaker entries a summary of the model holds at most
MaxEntries == 3

\* how many comma-separated parts an entry of the model holds at most
MaxParts == 4

EntryChoices ==
    {<<>>, <<"J">>, <<"K", ",", " ", "A">>,
     <<"K", ",", " ", "A", ",", " ", "I", "n", "c", ".">>,
     <<"K", ",", "A", ",", "I", "n", "c", ".">>}

SepChoices == {<<" ", "&", " ">>, <<";">>}

Heads == {<<"T">>, <<"T", " ", "-", " ">>, <<"T", " ", "-", " ", "U", " ", "-", " ">>}

PartChoices == {<<>>, <<"J">>, <<" ", "A", " ">>, <<"I", "n", "c", ".">>, <<"T">>}

KaitoDeepDive ==
    <<"K", "A", "I", "T", "O", " ", "D", "e", "e", "p", " ", "D", "i", "v", "e", " ",
      "-", " ", "J", "a", "n", "e", " ", "D", "o", "e", ",", " ", "A", "c", "m", "e",
      ",", " ", "I", "n", "c", ".">>

PanelSummary ==
    <<"P", "a", "n", "e", "l", " ", "-", " ", "J", "a", "n", "e", " ", "D", "o", "e",
      " ", "&", " ", "J", "o", "h", "n", " ", "S", "m", "i", "t", "h", ",", " ",
      "A", "c", "m", "e", ",", " ", "I", "n", "c", ".">>

TalkWithNoDash ==
    <<"T", "a", "l", "k", " ", "w", "i", "t", "h", " ", "n", "o", " ", "d", "a", "s", "h">>

JaneDoe == <<"J", "a", "n", "e", " ", "D", "o", "e">>

JohnSmith == <<"J", "o", "h", "n", " ", "S", "m", "i", "t", "h">>

AcmeInc == <<"A", "c", "m", "e", ",", " ", "I", "n", "c", ".">>

SummaryInputs ==
    {<<>>, KaitoDeepDive, PanelSummary, TalkWithNoDash}
    \cup UNION {{h \o JoinWith(es, ss) : h \in Heads, es \in [1..k -> EntryChoices],
                                         ss \in [1..(k - 1) -> SepChoices]}
                : k \in 1..MaxEntries}

EntryInputs ==
    UNION {{Join(ps, <<",">>) : ps \in [1..k -> PartChoices]} : k \in 1..MaxParts}

InitSpeakers ==
    /\ Idle
    /\ pc = "call"
    /\ \/ call \in Calls("extract_speakers", SummaryInputs)
       \/ call \in Calls("parse_speaker_entry", EntryInputs)

CallExtractSpeakers ==
    /\ Calling("extract_speakers")
    /\ ret' = Returned(extract_speakers(call.arg))
    /\ Done

CallParseSpeakerEntry ==
    /\ Calling("parse_speaker_entry")
    /\ ret' = Returned(parse_speaker_entry(call.arg))
    /\ Done

NextSpeakers == CallExtractSpeakers \/ CallParseSpeakerEntry

SpecSpeakers == InitSpeakers /\ [][NextSpeakers]_vars

\* the speaker clause of a summary that holds " - ": the text after the first
\* " - ", trimmed
ClauseOf(summary) ==
    Strip(SubSeq(summary,
                 3 + (CHOOSE i \in 1..Len(summary) :
                         /\ MatchAt(summary, DashSep, i)
                         /\ \A j \in 1..(i - 1) : ~MatchAt(summary, DashSep, j)),
                 Len(summary)))

\* the " & " entries of a group, trimmed
EntriesOf(group) == StripAll(Split(group, <<" ", "&", " ">>))

\* the comma-separated parts of an entry, trimmed
PartsOf(entry) == StripAll(Split(entry, <<",">>))

\* the group is one the shared-company heuristic is stated for
SharedCompanyGroup(group) ==
    /\ Len(EntriesOf(group)) >= 2
    /\ Contains(Last(EntriesOf(group)), <<",">>)
    /\ \A i \in 1..(Len(EntriesOf(group)) - 1) : ~Contains(EntriesOf(group)[i], <<",">>)

\* the company the heuristic is stated to give: "Company, Suffix" when the
\* last part is a suffix token, otherwise the last part
SharedCompanyOf(parts) ==
    IF Len(parts) >= 3 /\ Last(parts) \in COMPANY_SUFFIXES
    THEN parts[Len(parts) - 1] \o <<",", " ">> \o Last(parts)
    ELSE Last(parts)

SharedSpeakersOf(entries, parts) ==
    [i \in 1..Len(entries) |->
        Speaker(IF i < Len(entries) THEN entries[i] ELSE parts[1], None,
                SharedCompanyOf(parts))]

\* C2: for every summary whose speaker clause is one group of two or more
\* " & " entries where only the last entry holds a comma, extract_speakers
\* returns one speaker per entry, in order, each with no title and with the
\* same company, the suffix-normalized tail of the last entry ("Company,
\* Suffix" when the last part is a suffix token, otherwise the last part);
\* "Panel - Jane Doe & John Smith, Acme, Inc." gives Jane Doe and John Smith,
\* both of "Acme, Inc.".
C2_SharedCompany ==
    (Called("extract_speakers") /\ Contains(call.arg, DashSep)) =>
        /\ (~Contains(ClauseOf(call.arg), <<";">>) /\ SharedCompanyGroup(ClauseOf(call.arg)))
           => ret.value = SharedSpeakersOf(EntriesOf(ClauseOf(call.arg)),
                                           PartsOf(Last(EntriesOf(ClauseOf(call.arg)))))
        /\ call.arg = PanelSummary
           => ret.value = <<Speaker(JaneDoe, None, AcmeInc), Speaker(JohnSmith, None, AcmeInc)>>

\* the speaker the documented rule order gives for the trimmed entry
RuleSpeaker(entry, parts, n) ==
    IF entry = <<>> THEN NoneObj
    ELSE IF ~Contains(entry, <<",">>) THEN Speaker(entry, None, None)
    ELSE IF n = 2 THEN Speaker(parts[1], None, parts[2])
    ELSE IF parts[n] \in COMPANY_SUFFIXES
    THEN Speaker(parts[1],
                 IF n = 3 THEN None ELSE Join(SubSeq(parts, 2, n - 2), <<",", " ">>),
                 parts[n - 1] \o <<",", " ">> \o parts[n])
    ELSE Speaker(parts[1], Join(SubSeq(parts, 2, n - 1), <<",", " ">>), parts[n])

\* C3: parse_speaker_entry follows the documented rule order: an entry empty
\* after trimming gives no speaker; no comma gives a name-only speaker; two
\* parts give (name, company) without title; three or more parts ending in a
\* suffix token give the first part as name, "second-to-last, suffix" as
\* company and the parts between as title (none when there are three parts);
\* three or more parts not ending in a suffix token give first part, last
\* part and the middle parts joined by ", ".  "KAITO Deep Dive - Jane Doe,
\* Acme, Inc." yields the one speaker Jane Doe of "Acme, Inc.", no title.
C3_RuleOrder ==
    /\ Called("parse_speaker_entry") =>
           ret.value = RuleSpeaker(Strip(call.arg), PartsOf(Strip(call.arg)),
                                   Len(PartsOf(Strip(call.arg))))
    /\ (Called("extract_speakers") /\ call.arg = KaitoDeepDive) =>
           ret.value = <<Speaker(JaneDoe, None, AcmeInc)>>

\* an entry of four parts ending in a suffix token was parsed: it has a
\* title, and a company with the suffix
C3_Witness ==
    /\ Called("parse_speaker_entry")
    /\ Len(PartsOf(call.arg)) = 4
    /\ Last(PartsOf(call.arg)) \in COMPANY_SUFFIXES
    /\ ret.value # NoneObj
    /\ ret.value.title = <<"T">>
    /\ ret.value.company = <<"A", ",", " ", "I", "n", "c", ".">>

\* the names, one after the other, occur in s from position p on
RECURSIVE InOrder(_, _, _)
InOrder(names, s, p) ==
    IF names = <<>> THEN TRUE
    ELSE /\ \E i \in p..(Len(s) + 1) : MatchAt(s, names[1], i)
         /\ InOrder(Tail(names), s,
                    Len(names[1]) + (CHOOSE i \in p..(Len(s) + 1) :
                        /\ MatchAt(s, names[1], i)
                        /\ \A j \in p..(i - 1) : ~MatchAt(s, names[1], j)))

\* the per-group results, concatenated in group order
RECURSIVE GroupResults(_)
GroupResults(groups) ==
    IF groups = <<>> THEN <<>>
    ELSE _parse_speaker_group(Strip(groups[1])) \o GroupResults(Tail(groups))

\* C8: extract_speakers returns the empty list for a summary without " - ";
\* otherwise the text after the first " - " is the speaker clause, split on
\* ";" into groups when it holds one, and the result is the concatenation of
\* the per-group results in group order, so that the speakers come in their
\* order of appearance in the summary.
C8_GroupOrder ==
    Called("extract_speakers") =>
        IF ~Contains(call.arg, DashSep) THEN ret.value = <<>>
        ELSE /\ ret.value = IF Contains(ClauseOf(call.arg), <<";">>)
                            THEN GroupResults(Split(ClauseOf(call.arg), <<";">>))
                            ELSE _parse_speaker_group(ClauseOf(call.arg))
             /\ InOrder([i \in 1..Len(ret.value) |-> ret.value[i].name], call.arg, 1)

\* a summary with two " - " and two ";" groups gave two speakers or more
C8_Witness ==
    /\ Called("extract_speakers")
    /\ Len(Split(call.arg, DashSep)) = 3
    /\ Contains(ClauseOf(call.arg), <<";">>)
    /\ Len(ret.value) >= 2
    /\ ret.value[1].name # ret.value[2].name

\* C15: every Speaker returned by extract_speakers has a non-empty name: an
\* entry whose name text is empty (an empty entry between " & " delimiters, or
\* an entry that begins with a comma) gives no speaker and is skipped, on the
\* shared-company path and on the per-entry path, and the extraction of the
\* other speakers is not aborted.
C15_NamedSpeakers ==
    Called("extract_speakers") =>
        /\ ret.raised = NoExc
        /\ \A i \in 1..Len(ret.value) : ret.value[i].name # <<>>

-----------------------------------------------------------------------------
(* parse_location on location strings.                                     *)

\* how many "|" segments a location of the model holds at most
MaxSegments == 3

SegChoices ==
    {<<>>, <<"R", "1">>, <<" ", "R", "2", " ">>,
     <<"B", "u", "i", "l", "d", "i", "n", "g", " ", "B">>,
     <<"b", "u", "i", "l", "d", "i", "n", "g", " ", " ", "b">>,
     <<"L", "e", "v", "e", "l", " ", "4">>,
     <<"L", "E", "V", "E", "L", " ", "5">>,
     <<"B", "u", "i", "l", "d", "i", "n", "g", " ">>}

CitySuffixes ==
    {<<>>, <<",", " ", "A", "t", "l", "a", "n", "t", "a", ",", " ", "G", "A">>,
     <<",", "A", "t", "l", "a", "n", "t", "a">>}

VenueLocation ==
    <<"B", "u", "i", "l", "d", "i", "n", "g", " ", "B", " ", "|", " ", "L", "e", "v",
      "e", "l", " ", "4", " ", "|", " ", "B", "4", "0", "6", "b", "-", "4", "0", "7",
      ",", " ", "A", "t", "l", "a", "n", "t", "a", ",", " ", "G", "A", ",", " ",
      "U", "S", "A">>

LocationInputs ==
    {VenueLocation}
    \cup UNION {{Join(segs, <<"|">>) \o c : segs \in [1..k -> SegChoices], c \in CitySuffixes}
                : k \in 1..MaxSegments}

InitLocation ==
    /\ Idle
    /\ pc = "call"
    /\ call \in Calls("parse_location", LocationInputs)

CallParseLocation ==
    /\ Calling("parse_location")
    /\ ret' = Returned(parse_location(call.arg))
    /\ Done

NextLocation == CallParseLocation

SpecLocation == InitLocation /\ [][NextLocation]_vars

BuildingPrefix == <<"b", "u", "i", "l", "d", "i", "n", "g", " ">>

LevelPrefix == <<"l", "e", "v", "e", "l", " ">>

\* the kind of a trimmed segment
KindOf(seg) ==
    IF StartsWith(Lower(seg), BuildingPrefix) THEN "building"
    ELSE IF StartsWith(Lower(seg), LevelPrefix) THEN "level"
    ELSE IF seg # <<>> THEN "room"
    ELSE "empty"

\* the last segment of the kind, None when there is none
LastOfKind(segs, kind) ==
    IF \E i \in 1..Len(segs) : KindOf(segs[i]) = kind
    THEN segs[CHOOSE i \in 1..Len(segs) :
                 /\ KindOf(segs[i]) = kind
                 /\ \A j \in (i + 1)..Len(segs) : KindOf(segs[j]) # kind]
    ELSE None

\* x without its first n characters, None staying None
Remainder(x, n) == IF x = None THEN None ELSE SubSeq(x, n + 1, Len(x))

TrimmedRemainder(x, n) == IF x = None THEN None ELSE Strip(SubSeq(x, n + 1, Len(x)))

\* None when the string is empty or no field is set
OrNone(location, loc) ==
    IF location # <<>> /\ (Truthy(loc.building) \/ Truthy(loc.level) \/ Truthy(loc.room))
    THEN loc ELSE NoneObj

\* the text before the first ", Atlanta"
BeforeCommaSpaceCity(s) ==
    Split1(s, <<",", " ", "A", "t", "l", "a", "n", "t", "a">>)[1]

\* the statement of C5 as the claim words it: the cut is at the first
\* ", Atlanta" and building and level are the remainder after the prefix
C5_AsClaimed ==
    Called("parse_location") =>
        /\ ret.value =
               OrNone(call.arg,
                   Location(
                       Remainder(LastOfKind(StripAll(Split(BeforeCommaSpaceCity(call.arg),
                                                           <<"|">>)), "building"), 9),
                       Remainder(LastOfKind(StripAll(Split(BeforeCommaSpaceCity(call.arg),
                                                           <<"|">>)), "level"), 6),
                       LastOfKind(StripAll(Split(BeforeCommaSpaceCity(call.arg),
                                                 <<"|">>)), "room")))
        /\ call.arg = VenueLocation =>
               ret.value = Location(<<"B">>, <<"4">>,
                                    <<"B", "4", "0", "6", "b", "-", "4", "0", "7">>)

\* the text before the first comma that optional whitespace and "Atlanta" follow
BeforeCommaCity(s) ==
    IF \E i \in 1..Len(s) : CityAt(s, i)
    THEN SubSeq(s, 1, (CHOOSE i \in 1..Len(s) :
                          CityAt(s, i) /\ \A j \in 1..(i - 1) : ~CityAt(s, j)) - 1)
    ELSE s

\* C5: parse_location drops everything from the first comma that is followed
\* by optional whitespace and "Atlanta", splits the rest on "|" and trims each
\* segment; a segment with case-insensitive prefix "Building " sets building
\* to the trimmed remainder, one with case-insensitive prefix "Level " sets
\* level to the trimmed remainder, any other non-empty segment sets room, the
\* last segment of each kind wins, and the result is None when the string is
\* empty or no field is set.  "Building B | Level 4 | B406b-407, Atlanta, GA,
\* USA" yields building "B", level "4", room "B406b-407".
C5_Location ==
    Called("parse_location") =>
        /\ ret.value =
               OrNone(call.arg,
                   Location(
                       TrimmedRemainder(LastOfKind(StripAll(Split(BeforeCommaCity(call.arg),
                                                                  <<"|">>)), "building"), 9),
                       TrimmedRemainder(LastOfKind(StripAll(Split(BeforeCommaCity(call.arg),
                                                                  <<"|">>)), "level"), 6),
                       LastOfKind(StripAll(Split(BeforeCommaCity(call.arg),
                                                 <<"|">>)), "room")))
        /\ call.arg = VenueLocation =>
               ret.value = Location(<<"B">>, <<"4">>,
                                    <<"B", "4", "0", "6", "b", "-", "4", "0", "7">>)

\* a location with two rooms and two buildings before ",Atlanta" was parsed:
\* the last of each won
C5_Witness ==
    /\ Called("parse_location")
    /\ Contains(call.arg, <<",", "A", "t", "l", "a", "n", "t", "a">>)
    /\ Len(Split(call.arg, <<"|">>)) = 3
    /\ ret.value # NoneObj
    /\ ret.value.room = <<"R", "2">>
    /\ ret.value.building = <<"b">>

\* the trimmed segments of a location string, the city suffix dropped
SegmentsOf(location) == StripAll(Split(BeforeCommaCity(location), <<"|">>))

LocationFieldNames == {"building", "level", "room"}

\* C17: parse_location returns a Location only when at least one of building,
\* level, room is a non-empty string, and None otherwise (empty input, or only
\* empty segments); each field that is set in a Location it returns is a
\* non-empty string without leading or trailing whitespace.
C17_MaterializedLocation ==
    Called("parse_location") =>
        /\ ret.raised = NoExc
        /\ ret.value = NoneObj <=>
               \A i \in 1..Len(SegmentsOf(call.arg)) : SegmentsOf(call.arg)[i] = <<>>
        /\ ret.value # NoneObj =>
               /\ \E f \in LocationFieldNames : Truthy(ret.value[f])
               /\ \A f \in LocationFieldNames :
                      ret.value[f] # None =>
                          ret.value[f] # <<>> /\ Strip(ret.value[f]) = ret.value[f]

\* a bare "Building " segment next to an empty one was parsed: the trimmed
\* segment is no building but the room "Building", the other fields unset
C17_Witness ==
    /\ Called("parse_location")
    /\ Len(Split(call.arg, <<"|">>)) = 2
    /\ <<>> \in {SegmentsOf(call.arg)[i] : i \in 1..Len(SegmentsOf(call.arg))}
    /\ ret.value = Location(None, None, <<"B", "u", "i", "l", "d", "i", "n", "g">>)

-----------------------------------------------------------------------------
(* parse_ics_datetime on timestamps.                                       *)

\* the timestamps of the model are of year 1 and of 2025..2025 + YearSpan
YearSpan == 1

DtYears == {1} \cup (2025..(2025 + YearSpan))

DtMonths == {1, 3, 11, 13}

DtDays == {1, 2, 8, 9, 31}

DtHours == {4, 5, 6, 7, 14}

\* <<minute, second>>
DtMinSecs == {<<0, 0>>, <<56, 1>>, <<56, 2>>, <<59, 59>>, <<0, 60>>}

DtTails == {<<"Z">>, <<>>}

Timestamp(y, m, d, h, ms, tail) ==
    Pad4(y) \o Pad2(m) \o Pad2(d) \o <<"T">> \o Pad2(h) \o Pad2(ms[1]) \o Pad2(ms[2])
    \o tail

Nov18 ==
    <<"2", "0", "2", "5", "1", "1", "1", "8", "T", "1", "4", "0", "0", "0", "0", "Z">>

Nov18Local ==
    <<"2", "0", "2", "5", "-", "1", "1", "-", "1", "8", "T", "0", "9", ":", "0", "0",
      ":", "0", "0", "-", "0", "5", ":", "0", "0">>

YearOneMidnight ==
    <<"0", "0", "0", "1", "0", "1", "0", "1", "T", "0", "0", "0", "0", "0", "0", "Z">>

DatetimeInputs ==
    {<<>>, Nov18, YearOneMidnight, <<"x">>,
     <<"2", "0", "2", "5", "1", "1", "8", "T", "1", "4", "0", "0", "0", "0", "z">>}
    \cup {Timestamp(y, m, d, h, ms, tail) :
              y \in DtYears, m \in DtMonths, d \in DtDays, h \in DtHours,
              ms \in DtMinSecs, tail \in DtTails}

InitDatetime ==
    /\ Idle
    /\ pc = "call"
    /\ call \in Calls("parse_ics_datetime", DatetimeInputs)

CallParseIcsDatetime ==
    /\ Calling("parse_ics_datetime")
    /\ ret' = parse_ics_datetime(call.arg)
    /\ Done

NextDatetime == CallParseIcsDatetime

SpecDatetime == InitDatetime /\ [][NextDatetime]_vars

\* C6: parse_ics_datetime never raises to its caller: a string that cannot be
\* converted from the YYYYMMDDTHHMMSSZ format comes back unchanged, whatever
\* the string is.
C6_NeverRaises ==
    Called("parse_ics_datetime") =>
        /\ ret.raised = NoExc
        /\ ~strptime(call.arg).ok => ret.value = call.arg

\* s is a valid UTC timestamp of the form YYYYMMDDTHHMMSSZ
IsValidTimestamp(s) ==
    /\ Len(s) = 16
    /\ DigitsAt(s, 1, 8) /\ s[9] = "T" /\ DigitsAt(s, 10, 6) /\ s[16] = "Z"
    /\ NumAt(s, 1, 4) >= 1
    /\ NumAt(s, 5, 2) \in 1..12
    /\ NumAt(s, 7, 2) \in 1..DaysInMonth(NumAt(s, 1, 4), NumAt(s, 5, 2))
    /\ NumAt(s, 10, 2) <= 23 /\ NumAt(s, 12, 2) <= 59 /\ NumAt(s, 14, 2) <= 59

\* the UTC instant of a valid timestamp: <<day number, second of day>>
UtcInstant(s) ==
    <<DaysFromCivil(NumAt(s, 1, 4), NumAt(s, 5, 2), NumAt(s, 7, 2)),
      NumAt(s, 10, 2) * 3600 + NumAt(s, 12, 2) * 60 + NumAt(s, 14, 2)>>

\* v is YYYY-MM-DDTHH:MM:SS-HH:MM, or the same with :SS after the offset
IsIsoWithOffset(v) ==
    /\ Len(v) \in {25, 28}
    /\ DigitsAt(v, 1, 4) /\ v[5] = "-" /\ DigitsAt(v, 6, 2) /\ v[8] = "-"
    /\ DigitsAt(v, 9, 2) /\ v[11] = "T" /\ DigitsAt(v, 12, 2) /\ v[14] = ":"
    /\ DigitsAt(v, 15, 2) /\ v[17] = ":" /\ DigitsAt(v, 18, 2) /\ v[20] = "-"
    /\ DigitsAt(v, 21, 2) /\ v[23] = ":" /\ DigitsAt(v, 24, 2)
    /\ Len(v) = 28 => (v[26] = ":" /\ DigitsAt(v, 27, 2))

\* how many seconds the local time of v is behind UTC
IsoBehind(v) ==
    NumAt(v, 21, 2) * 3600 + NumAt(v, 24, 2) * 60
    + (IF Len(v) = 28 THEN NumAt(v, 27, 2) ELSE 0)

\* New York keeps zone time (standard or daylight) at the UTC instant t: it
\* does from 1883-11-18, noon EST
ZoneTime(t) == ~Before(t[1], t[2], DaysFromCivil(1883, 11, 18), 17 * 3600)

\* the local civil time of v, as seconds since the start of its day in UTC
IsoSeconds(v) ==
    NumAt(v, 12, 2) * 3600 + NumAt(v, 15, 2) * 60 + NumAt(v, 18, 2) + IsoBehind(v)

\* the instant v names: <<day number, second of day>> in UTC
IsoInstant(v) ==
    <<DaysFromCivil(NumAt(v, 1, 4), NumAt(v, 6, 2), NumAt(v, 9, 2))
      + IsoSeconds(v) \div 86400,
      IsoSeconds(v) % 86400>>

\* daylight-saving time is in force in New York at the UTC instant t: from
\* the second Sunday of March, 2 a.m. EST, to the first Sunday of November,
\* 2 a.m. EDT
DaylightTime(t) ==
    /\ ~Before(t[1], t[2], NthSunday(CivilFromDays(t[1]).year, 3, 2), 7 * 3600)
    /\ Before(t[1], t[2], NthSunday(CivilFromDays(t[1]).year, 11, 1), 6 * 3600)

\* C10: for every valid UTC timestamp YYYYMMDDTHHMMSSZ parse_ics_datetime
\* returns the same instant as New York civil time in ISO-8601 with an
\* explicit offset, -04:00 when daylight-saving time is in force and -05:00
\* when standard time is; "20251118T140000Z" gives "2025-11-18T09:00:00-05:00".
C10_LocalTime ==
    (Called("parse_ics_datetime") /\ IsValidTimestamp(call.arg)) =>
        /\ ret.raised = NoExc
        /\ IsIsoWithOffset(ret.value)
        /\ IsoInstant(ret.value) = UtcInstant(call.arg)
        /\ ZoneTime(UtcInstant(call.arg)) =>
               IsoBehind(ret.value) = IF DaylightTime(UtcInstant(call.arg)) THEN 4 * 3600
                                      ELSE 5 * 3600
        /\ call.arg = Nov18 => ret.value = Nov18Local

-----------------------------------------------------------------------------
(* to_ascii on texts.                                                      *)

\* how many characters a text of the model holds at most
MaxTextLen == 3

TextChars == {"a", " ", "U+00E9", "U+0301", "U+00C9", "U+2013", "U+00A0", "U+FB01",
              "U+2026", "U+00BD"}

TextInputs == UNION {[1..n -> TextChars] : n \in 0..MaxTextLen}

InitText ==
    /\ Idle
    /\ pc = "call"
    /\ call \in Calls("to_ascii", TextInputs)

CallToAscii ==
    /\ Calling("to_ascii")
    /\ ret' = Returned(to_ascii(call.arg))
    /\ Done

NextText == CallToAscii

SpecText == InitText /\ [][NextText]_vars

\* C9: to_ascii is idempotent, to_ascii(to_ascii(t)) = to_ascii(t) for every
\* text t, and what it returns holds 7-bit ASCII characters only.
C9_Idempotent ==
    Called("to_ascii") =>
        /\ to_ascii(ret.value) = ret.value
        /\ \A i \in 1..Len(ret.value) : ret.value[i] \notin NonAscii

\* a text with characters outside ASCII was normalized: some were dropped,
\* some were replaced by more than one ASCII character
C9_Witness ==
    /\ Called("to_ascii")
    /\ Len(call.arg) = 3
    /\ \A i \in 1..3 : call.arg[i] \in NonAscii
    /\ call.arg[1] = "U+2013"
    /\ Len(ret.value) > 3

-----------------------------------------------------------------------------
(* unescape_ics_text on escaped and on raw texts.                          *)

\* how many characters a text of the model holds before it is escaped
MaxEscLen == 3

EscChars == {"a", "n", ",", ";", "\n", "\\"}

EscTexts == UNION {[1..n -> EscChars] : n \in 0..MaxEscLen}

\* ICS escaping of one character
EscapeChar(c) ==
    CASE c = "\\" -> <<"\\", "\\">>
      [] c = ","  -> <<"\\", ",">>
      [] c = ";"  -> <<"\\", ";">>
      [] c = "\n" -> <<"\\", "n">>
      [] OTHER    -> <<c>>

\* ICS escaping of a text: each backslash becomes two backslashes, each
\* comma, semicolon and newline becomes backslash-comma, backslash-semicolon
\* and backslash-n
RECURSIVE Escape(_)
Escape(t) == IF t = <<>> THEN <<>> ELSE EscapeChar(Head(t)) \o Escape(Tail(t))

\* the texts handed to unescape_ics_text: raw texts and escaped texts
UnescapeInputs == EscTexts \cup {Escape(t) : t \in EscTexts}

InitUnescape ==
    /\ Idle
    /\ pc = "call"
    /\ call \in Calls("unescape_ics_text", UnescapeInputs)

CallUnescapeIcsText ==
    /\ Calling("unescape_ics_text")
    /\ ret' = Returned(unescape_ics_text(call.arg))
    /\ Done

NextUnescape == CallUnescapeIcsText

SpecUnescape == InitUnescape /\ [][NextUnescape]_vars

\* the text has no leading and no trailing whitespace
IsTrimmed(t) == t = <<>> \/ (t[1] \notin Whitespace /\ t[Len(t)] \notin Whitespace)

\* an escaped backslash followed by the letter n
EscapedBackslashN == <<"\\", "\\", "n">>

\* C16: unescape_ics_text inverts ICS escaping: for every text t with no
\* leading or trailing whitespace, built from plain characters, commas,
\* semicolons, newlines and backslashes, unescape_ics_text(escape(t)) = t; in
\* particular an escaped backslash followed by the letter n comes back as a
\* backslash followed by n, not as a newline.
C16_InvertsEscape ==
    Called("unescape_ics_text") =>
        /\ \A t \in EscTexts : (IsTrimmed(t) /\ call.arg = Escape(t)) => ret.value = t
        /\ call.arg = EscapedBackslashN => ret.value = <<"\\", "n">>

-----------------------------------------------------------------------------
(* format_event_to_document on events.                                     *)

EventSummaries ==
    {<<"T">>, <<"T", " ", "-", " ", "J", " ", "&", " ", "K", ",", " ", "A">>,
     <<"T", " ", " ", "-", " ", "J">>,
     <<"C", "a", "f", "U+00E9", " ", "-", " ", "J", "o", "s", "U+00E9", ",", " ",
       "A", "c", "m", "U+00E9">>}

EventDescriptions == {<<>>, <<"d">>, <<"c", "a", "f", "U+00E9">>}

EventLocations ==
    {<<>>, <<"R", "1">>, <<"S", "a", "l", "l", "e", " ", "U+00C9">>, VenueLocation}

EventCategories == {<<>>, <<<<"K">>>>, <<<<"K", "U+00E9">>, <<"R">>>>}

EventInputs ==
    {[NewEvent EXCEPT !.uid = <<"u", "1">>, !.dtstart = Nov18Local, !.summary = s,
                      !.description = d, !.location = l, !.categories = c] :
         s \in EventSummaries, d \in EventDescriptions, l \in EventLocations,
         c \in EventCategories}

InitDocument ==
    /\ Idle
    /\ pc = "call"
    /\ call \in Calls("format_event_to_document", EventInputs)

CallFormatEventToDocument ==
    /\ Calling("format_event_to_document")
    /\ ret' = Returned(format_event_to_document(call.arg))
    /\ Done

NextDocument == CallFormatEventToDocument

SpecDocument == InitDocument /\ [][NextDocument]_vars

\* every text of the dict d (a Location or a Speaker as written out) is ASCII
AsciiDict(d) == \A k \in DOMAIN d : AllAscii(d[k])

\* C7: format_event_to_document normalizes every free-text field (summary,
\* description, location, each category) before parsing it, so every string
\* of the Document's text and of its metadata title, description, categories,
\* location and speakers is 7-bit ASCII, whatever the event's fields hold.
C7_AsciiOnly ==
    Called("format_event_to_document") =>
        /\ AllAscii(ret.value.text)
        /\ AllAscii(ret.value.metadata.title)
        /\ AllAscii(ret.value.metadata.description)
        /\ \A i \in 1..Len(ret.value.metadata.categories) :
               AllAscii(ret.value.metadata.categories[i])
        /\ "location" \in DOMAIN ret.value.metadata =>
               AsciiDict(ret.value.metadata.location)
        /\ "speakers" \in DOMAIN ret.value.metadata =>
               \A i \in 1..Len(ret.value.metadata.speakers) :
                   AsciiDict(ret.value.metadata.speakers[i])

\* the sentences of the text body
SpeakersSentence(speakers) ==
    <<"S", "p", "e", "a", "k", "e", "r", "s", ":", " ">>
    \o Join([i \in 1..Len(speakers) |-> speaker_to_text(speakers[i])], <<",", " ">>)
    \o <<".">>

LocationSentence(location) ==
    <<"L", "o", "c", "a", "t", "i", "o", "n", ":", " ">> \o location_to_text(location)
    \o <<".">>

CategoriesSentence(categories) ==
    <<"C", "a", "t", "e", "g", "o", "r", "i", "e", "s", ":", " ">>
    \o Join(categories, <<",", " ">>) \o <<".">>

\* x when the condition holds, nothing otherwise
Part(cond, x) == IF cond THEN <<x>> ELSE <<>>

\* the text body of the document of an event with the normalized description
\* and categories, the speakers extracted and the location parsed
BodyOf(description, speakers, location, categories) ==
    Join(Part(description # <<>>, description)
         \o Part(speakers # <<>>, SpeakersSentence(speakers))
         \o Part(location # NoneObj, LocationSentence(location))
         \o Part(categories # <<>>, CategoriesSentence(categories)),
         <<" ">>)

\* text and the optional metadata keys of the document doc of the event
BodyAndKeys(event, doc) ==
    /\ doc.text = BodyOf(to_ascii(event.description),
                         extract_speakers(to_ascii(event.summary)),
                         parse_location(event.location),
                         [i \in 1..Len(event.categories) |-> to_ascii(event.categories[i])])
    /\ "location" \in DOMAIN doc.metadata <=> parse_location(event.location) # NoneObj
    /\ "speakers" \in DOMAIN doc.metadata
           <=> extract_speakers(to_ascii(event.summary)) # <<>>
    /\ "location" \in DOMAIN doc.metadata => doc.metadata.location # NoneObj
    /\ "speakers" \in DOMAIN doc.metadata => doc.metadata.speakers # <<>>

\* the text of s before its first " - ", all of s when it holds none
BeforeFirstDash(s) ==
    IF \E i \in 1..Len(s) : MatchAt(s, DashSep, i)
    THEN SubSeq(s, 1, (CHOOSE i \in 1..Len(s) :
                          MatchAt(s, DashSep, i)
                          /\ \A j \in 1..(i - 1) : ~MatchAt(s, DashSep, j)) - 1)
    ELSE s

\* the statement of C11 as the claim words it: the title is the text of the
\* summary before its first " - "
C11_AsClaimed ==
    Called("format_event_to_document") =>
        /\ BodyAndKeys(call.arg, ret.value)
        /\ ret.value.metadata.title = BeforeFirstDash(to_ascii(call.arg.summary))

\* C11: format_event_to_document joins, in this order and with one blank
\* between them, the description (if non-empty), the "Speakers: ..." sentence
\* (if a speaker was extracted), the "Location: ..." sentence (if a location
\* was parsed) and the "Categories: ..." sentence (if there are categories);
\* the metadata has the key "location" exactly when a location was parsed and
\* the key "speakers" exactly when a speaker was extracted, never with a null
\* value; the title is the normalized summary's text before its first " - ",
\* trimmed, or the whole normalized summary when it holds no " - ".
C11_Body ==
    Called("format_event_to_document") =>
        /\ BodyAndKeys(call.arg, ret.value)
        /\ ret.value.metadata.title =
               IF Contains(to_ascii(call.arg.summary), DashSep)
               THEN Strip(BeforeFirstDash(to_ascii(call.arg.summary)))
               ELSE to_ascii(call.arg.summary)

\* an event with description, speakers, location and categories was
\* formatted: the text has the four parts and the metadata both keys
C11_Witness ==
    /\ Called("format_event_to_document")
    /\ call.arg.description # <<>>
    /\ call.arg.categories # <<>>
    /\ {"location", "speakers"} \subseteq DOMAIN ret.value.metadata
    /\ Len(ret.value.metadata.speakers) = 2
    /\ Contains(ret.value.text, <<".", " ", "L", "o", "c", "a", "t", "i", "o", "n", ":">>)
    /\ Contains(ret.value.text, <<".", " ", "C", "a", "t", "e", "g", "o", "r", "i", "e", "s">>)

-----------------------------------------------------------------------------
(* The pipeline: parse_ics_to_json, then format_schedule_for_indexing.     *)

\* the recognized text fields of an event
TextFields == {"uid", "summary", "description", "location", "url"}

\* the step reads a physical line that begins with exactly one space while the
\* tokenizer is inside an event and a text field is the current field
ReadsContinuation ==
    /\ pc = "reading"
    /\ nread' = nread + 1
    /\ current_event # NoneObj
    /\ current_field \in TextFields
    /\ Len(line') >= 2
    /\ line'[1] = " "
    /\ line'[2] # " "

\* C1: in parse_ics_to_json a physical line that begins with exactly one space
\* and follows a FIELD:value line of a recognized text field is appended to
\* that field without its leading space and without an inserted break, and
\* leaves the tokenizer state (current event, current field) otherwise as it
\* was.
C1_Continuation ==
    [][ReadsContinuation =>
           /\ current_event' = [current_event EXCEPT
                                   ![current_field] = @ \o Tail(line')]
           /\ current_field' = current_field
           /\ events' = events
           /\ metadata' = metadata
           /\ pc' = pc]_vars

\* the indexes of the events none of whose categories is excluded
KeptIndexes(evs) ==
    {i \in 1..Len(evs) :
        \A j \in 1..Len(evs[i].categories) : evs[i].categories[j] \notin EXCLUDED_CATEGORIES}

\* the index of the k-th of them
KthKept(evs, k) ==
    CHOOSE i \in KeptIndexes(evs) : Cardinality({j \in KeptIndexes(evs) : j <= i}) = k

\* documents is one document per retained event, in source order
DocumentsAreKeptEvents ==
    pc = "indexed" =>
        /\ Len(documents) = Cardinality(KeptIndexes(events))
        /\ \A k \in 1..Len(documents) :
               documents[k] = format_event_to_document(events[KthKept(events, k)])

\* END:VEVENT appends the event whatever its categories are, and formatting
\* leaves the events list as it is
ParsingKeepsEvent ==
    /\ (current_event # NoneObj /\ current_event' = NoneObj) =>
           /\ Len(events') = Len(events) + 1
           /\ SubSeq(events', 1, Len(events)) = events
           /\ events'[Len(events')].categories = current_event.categories
    /\ pc' = "indexed" => events' = events

\* C4: the documents format_schedule_for_indexing produces are exactly the
\* documents of the events none of whose categories is in the exclusion set,
\* in source order, one per retained event; an event with an excluded
\* category is never among them, while parse_ics_to_json, which filters on no
\* category, still has it in its events list.
C4_Filter == []DocumentsAreKeptEvents /\ [][ParsingKeepsEvent]_vars

\* a calendar of an excluded event and a retained one was indexed: two
\* events, one document, that of the second event
C4_Witness ==
    /\ pc = "indexed"
    /\ Len(events) = 2
    /\ KeptIndexes(events) = {2}
    /\ Len(documents) = 1
    /\ Len(events[1].categories) = 2
    /\ events[2].categories # <<>>

\* the stripped line s has the form FIELD:value with FIELD a recognized event
\* field
IsFieldLine(s) == Contains(s, <<":">>) /\ IsEventField(Split1(s, <<":">>)[1])

\* the step reads a malformed line: a line that is no calendar metadata line
\* and no block-begin marker, and is either a block-end marker or an event
\* field read outside an event, or a line inside an event without a
\* recognized field name
ReadsMalformed ==
    /\ pc = "reading"
    /\ nread' = nread + 1
    /\ Strip(line') # <<>>
    /\ ~IsMetadataLine(Strip(line'))
    /\ Strip(line') # BeginMarker
    /\ \/ current_event = NoneObj
       \/ (Strip(line') # EndMarker /\ ~IsFieldLine(Strip(line')))

\* C12: parse_ics_to_json completes without raising whatever the lines are,
\* and a malformed line (an unrecognized field name, a stray block marker, a
\* line whose content cannot be interpreted) is ignored: it leaves the
\* calendar metadata, the events list and the current event as they were.
C12_NeverAborts ==
    [][/\ pc' # "raised"
       /\ ReadsMalformed => UNCHANGED <<metadata, events, current_event>>]_vars

\* the step reads a line that, stripped, is the marker
ReadsMarker(marker) ==
    /\ pc = "reading"
    /\ nread' = nread + 1
    /\ Strip(line') = marker

\* an Event with every field at its default
DefaultEvent ==
    [uid |-> <<>>, dtstamp |-> <<>>, dtstart |-> <<>>, dtend |-> <<>>,
     summary |-> <<>>, description |-> <<>>, categories |-> <<>>,
     location |-> <<>>, sequence |-> 0, url |-> <<>>]

\* the event as it is appended: its three text fields unescaped, the other
\* fields as they are
Finished(event) ==
    [k \in DOMAIN event |->
        IF k \in {"description", "summary", "location"}
        THEN unescape_ics_text(event[k]) ELSE event[k]]

\* what a step may do to the block state
BlockProtocol ==
    /\ ReadsMarker(BeginMarker) =>
           /\ current_event' = DefaultEvent
           /\ current_field' = NoField
           /\ events' = events
    /\ (ReadsMarker(EndMarker) /\ current_event # NoneObj) =>
           /\ events' = events \o <<Finished(current_event)>>
           /\ current_event' = NoneObj
           /\ current_field' = NoField
    /\ (ReadsMarker(EndMarker) /\ current_event = NoneObj) =>
           UNCHANGED <<events, current_event, current_field, metadata>>
    /\ ~(ReadsMarker(EndMarker) /\ current_event # NoneObj) => events' = events
    /\ ~ReadsMarker(BeginMarker) =>
           (current_event = NoneObj => current_event' = NoneObj)

\* C13: a block-begin marker allocates a new Event with all fields at their
\* defaults and no current field; a block-end marker read in an event appends
\* that Event once and returns to Idle, with no current event and no current
\* field; a block-end marker read while Idle changes nothing.  The events
\* list grows by one Event at each block-end marker read in an event and at no
\* other step, an Event holds only what was assigned since the last
\* block-begin marker (no other step opens an event), and an appended Event
\* is never changed.
C13_BlockProtocol == [][BlockProtocol]_vars

\* the step reads a line
ReadsLine ==
    /\ pc = "reading"
    /\ nread' = nread + 1

\* the prefixes of the calendar metadata lines
MetadataPrefixes ==
    {<<"V", "E", "R", "S", "I", "O", "N", ":">>,
     <<"X", "-", "W", "R", "-", "C", "A", "L", "N", "A", "M", "E", ":">>,
     <<"X", "-", "W", "R", "-", "C", "A", "L", "D", "E", "S", "C", ":">>,
     <<"M", "E", "T", "H", "O", "D", ":">>,
     <<"C", "A", "L", "S", "C", "A", "L", "E", ":">>,
     <<"P", "R", "O", "D", "I", "D", ":">>,
     <<"X", "-", "W", "R", "-", "T", "I", "M", "E", "Z", "O", "N", "E", ":">>}

\* the line just read is a metadata line
ReadsMetadataLine ==
    /\ ReadsLine
    /\ \E p \in MetadataPrefixes : StartsWith(Strip(line'), p)

\* C14: calendar metadata is recorded only from a metadata line (VERSION,
\* X-WR-CALNAME, X-WR-CALDESC, METHOD, CALSCALE, PRODID, X-WR-TIMEZONE) read
\* while the tokenizer is Idle: a line read inside an event block leaves the
\* calendar metadata unchanged, and a metadata line never changes the current
\* event or the tokenizer state.
C14_MetadataFrame ==
    [][/\ metadata' # metadata => (ReadsMetadataLine /\ current_event = NoneObj)
       /\ (ReadsLine /\ current_event # NoneObj) => metadata' = metadata
       /\ ReadsMetadataLine => UNCHANGED <<current_event, current_field, events>>]_vars

\* two blocks were closed, the second with a field assigned in it: the line
\* just read is its block-end marker and the tokenizer is Idle again
C13_Witness ==
    /\ Len(events) = 2
    /\ events[1] = DefaultEvent
    /\ events[2] # DefaultEvent
    /\ current_event = NoneObj
    /\ nread = 6
    /\ Strip(line) = EndMarker

=============================================================================
